---- MODULE Spec2Model ----
(***************************************************************************)
(* Scrum Poker API (main.py): five request handlers over four store        *)
(* tables (users, rooms, room_users, estimates).  Every store call         *)
(* (.execute()) is one atomic step of the request that issues it; the      *)
(* Python between two store calls belongs to the step before it.           *)
(*                                                                         *)
(* Four specifications share the same steps:                               *)
(*   Spec   - requests are served one after the other;                     *)
(*   SpecC  - up to NProcs requests are in flight and their store steps    *)
(*            interleave freely;                                           *)
(*   SpecA  - requests arrive with an Authorization header and a body      *)
(*            user_id, and get_current_user_id is their first step;        *)
(*   SpecF  - any store call may raise instead of answering.               *)
(* A run serves at most MaxRequests (Spec), MaxRequestsC (SpecC),          *)
(* MaxRequestsA (SpecA) or MaxRequestsF (SpecF) requests.  Where requests  *)
(* are served one after the other, the history variable pre keeps the      *)
(* store as it was when the request being served arrived.                  *)
(*                                                                         *)
(* A room row keeps the columns a handler reads or rewrites (id,           *)
(* join_code, revealed, average, is_active); created_by and                *)
(* estimation_unit are written once by create_room and never read.         *)
(* Outside SpecF store calls are taken to answer, and outside SpecA the    *)
(* user id of a request is taken as resolved.  Join codes reach join_room  *)
(* already stripped and upper-cased.  Averages are exact fractions         *)
(* <<n, d>>.                                                               *)
(***************************************************************************)
EXTENDS Integers, Sequences, FiniteSets, Bags, TLC

\* ---- bounds of the model
NUsers == 2
NProcs == 2
MaxRequests == 4
MaxRequestsC == 3
MaxRequestsA == 1
MaxRequestsF == 2

\* ---- program constants
Capacity == 15
MaxAttempts == 6

\* ---- value domains
UserIds == 1..NUsers
FillerIds == 101..(100 + Capacity - 1)
SeedRoom == 0
RoomIds == 0..(MaxRequests + MaxRequestsC + MaxRequestsA + MaxRequestsF)
Codes == {1, 2}
Values == {5, 8}
Procs == 1..NProcs
NoSuchRoom == -1

\* A nullable column: <<>> is null, <<v>> holds v; an average is <<n, d>>.
Null == <<>>
NoName == "None"

VARIABLES users, rooms, room_users, estimates, req, started, pre

vars == <<users, rooms, room_users, estimates, req, started, pre>>
store == <<users, rooms, room_users, estimates>>
aux == <<started, pre>>

\* ---- responses
NoResp == [status |-> 0, detail |-> "", list |-> EmptyBag, average |-> Null]

Ok(list, average) == [status |-> 200, detail |-> "", list |-> list, average |-> average]

HTTPException(status, detail) == [status |-> status, detail |-> detail, list |-> EmptyBag, average |-> Null]

\* ---- a request slot: the handler's arguments, program counter and locals
Idle == [kind |-> "idle", pc |-> "idle", authorization |-> <<>>, fallback_user_id |-> Null, provider |-> Null, user_id |-> 0, room_id |-> -1, join_code |-> 0, estimate |-> Null, tries |-> 0, rejected |-> {}, existing |-> 0, all_members |-> 0, est_id |-> Null, data |-> EmptyBag, resp |-> NoResp]

CreateRoomRequest(u) == [Idle EXCEPT !.kind = "create_room", !.pc = "users_select", !.user_id = u]

JoinRoomRequest(u, c) == [Idle EXCEPT !.kind = "join_room", !.pc = "get_room_by_code", !.user_id = u, !.join_code = c]

SubmitEstimateRequest(u, r, v) == [Idle EXCEPT !.kind = "submit_estimate", !.pc = "room_select", !.user_id = u, !.room_id = r, !.estimate = <<v>>]

RevealRequest(u, r) == [Idle EXCEPT !.kind = "reveal", !.pc = "room_select", !.user_id = u, !.room_id = r]

ResetRequest(u, r) == [Idle EXCEPT !.kind = "reset", !.pc = "room_select", !.user_id = u, !.room_id = r]

\* the requests that users of us may send: any join code, and as room id the
\* id of any room or one id that no room has
RequestsBy(us) ==
  LET ids == {r.id : r \in rooms} \cup {NoSuchRoom}
  IN {CreateRoomRequest(u) : u \in us}
       \cup {JoinRoomRequest(u, c) : u \in us, c \in Codes}
       \cup {SubmitEstimateRequest(u, r, v) : u \in us, r \in ids, v \in Values}
       \cup {RevealRequest(u, r) : u \in us, r \in ids}
       \cup {ResetRequest(u, r) : u \in us, r \in ids}

\* the requests that may arrive
Requests == RequestsBy(UserIds)

\* ---- store queries
RoomsByCode(c) == {r \in rooms : r.join_code = c}

RoomsById(id) == {r \in rooms : r.id = id}

MemberRow(r, u) == [room_id |-> r, user_id |-> u]

\* room_users rows with this room_id and user_id
MemberRows(r, u) == CopiesIn(MemberRow(r, u), room_users)

\* room_users rows with this room_id, as a bag of user ids
RoomMemberIds(r) ==
  LET us == {m.user_id : m \in {x \in BagToSet(room_users) : x.room_id = r}}
  IN [u \in us |-> room_users[MemberRow(r, u)]]

EstimatesOf(r, u) == {e \in estimates : e.room_id = r /\ e.user_id = u}

EstimatesOfRoom(r) == {e \in estimates : e.room_id = r}

\* the id of a new estimates row (uuid4): one no row and no request holds
FreshEstimateId(r, u) ==
  LET used == {e.id : e \in EstimatesOf(r, u)}
                \cup {req[p].est_id[1] : p \in {q \in Procs : req[q].est_id # Null /\ req[q].room_id = r /\ req[q].user_id = u}}
  IN CHOOSE i \in 1..(Cardinality(used) + 1) : i \notin used

\* the id of a new rooms row (uuid4)
FreshRoomId == CHOOSE i \in RoomIds : i \notin {r.id : r \in rooms} /\ \A j \in RoomIds : j < i => j \in {r.id : r \in rooms}

Username(u) == CASE u = 1 -> "alice" [] u \in FillerIds -> "filler" [] OTHER -> NoName

SeedRow(active) == [id |-> SeedRoom, join_code |-> 1, revealed |-> FALSE, average |-> Null, is_active |-> active]

SeedEstimate(u, value) == [id |-> 1, room_id |-> SeedRoom, user_id |-> u, value |-> value]

\* ---- the store before the first request: one room that earlier create_room
\* and join_room requests left one seat short of full.  Either two of its
\* members have estimates in, or its one estimates row has a null value, or
\* the room has been switched off (nothing in main.py writes a null value or
\* clears is_active, but reveal and join_room read both)
Init ==
  /\ users = {[id |-> u, username |-> Username(u)] : u \in FillerIds \cup {1}}
  /\ room_users = SetToBag({MemberRow(SeedRoom, u) : u \in FillerIds})
  /\ \/ rooms = {SeedRow(TRUE)} /\ estimates = {SeedEstimate(101, <<5>>), SeedEstimate(102, <<13>>)}
     \/ rooms = {SeedRow(TRUE)} /\ estimates = {SeedEstimate(101, Null)}
     \/ rooms = {SeedRow(FALSE)} /\ estimates = {}
  /\ req = [p \in Procs |-> Idle]
  /\ started = 0
  /\ pre = [users |-> users, rooms |-> rooms, room_users |-> room_users, estimates |-> estimates]

\* ---- request life cycle
InFlight == {p \in Procs : req[p] # Idle}

Running(p, kind, pc) == req[p].kind = kind /\ req[p].pc = pc

Goto(p, pc) == [req[p] EXCEPT !.pc = pc]

Raise(p, status, detail) == [req[p] EXCEPT !.pc = "done", !.resp = HTTPException(status, detail)]

Return200(p, list, average) == [req[p] EXCEPT !.pc = "done", !.resp = Ok(list, average)]

Set(p, r) == req' = [req EXCEPT ![p] = r]

Accept(p, rq) ==
  /\ req[p] = Idle
  /\ \A q \in Procs : q < p => req[q] # Idle
  /\ Set(p, rq)
  /\ started' = started + 1
  /\ UNCHANGED store

\* a request arrives while no other is being served, the n-th at most
BeginOne(rq, n) ==
  /\ InFlight = {}
  /\ started < n
  /\ Accept(1, rq)
  /\ pre' = [users |-> users, rooms |-> rooms, room_users |-> room_users, estimates |-> estimates]

\* a request whose user id is resolved arrives while no other is being served
BeginSeq(rq) == BeginOne(rq, MaxRequests)

\* a request arrives, whatever else is being served
BeginConc(p, rq) ==
  /\ started < MaxRequestsC
  /\ Accept(p, rq)
  /\ UNCHANGED pre

\* the response is sent
Return(p) ==
  /\ req[p].pc = "done"
  /\ Set(p, Idle)
  /\ UNCHANGED <<store, aux>>

\* ---- get_current_user_id
\* An Authorization header is the sequence of its whitespace-separated parts
\* (<<>> when the header is absent or blank); a token is opaque.
Headers == {<<>>, <<"Basic", "tok">>, <<"Bearer">>, <<"Bearer", "tok">>, <<"BEARER", "tok">>}

\* the body's user_id: absent, or an id
FallbackIds == {Null} \cup {<<u>> : u \in UserIds}

\* the ids the identity provider knows: the users and one seated member
AuthIds == UserIds \cup {101}

\* what GET /auth/v1/user may come to: a response with a status code and
\* perhaps an id, or an httpx.HTTPError (reached = FALSE)
ProviderAnswers ==
  {[reached |-> TRUE, status_code |-> 200, id |-> <<u>>] : u \in AuthIds}
    \cup {[reached |-> TRUE, status_code |-> 200, id |-> Null],
          [reached |-> TRUE, status_code |-> 401, id |-> Null],
          [reached |-> FALSE, status_code |-> 0, id |-> Null]}

\* str.lower() on the words that occur
Lower(w) == CASE w = "Bearer" -> "bearer" [] w = "BEARER" -> "bearer" [] w = "Basic" -> "basic" [] OTHER -> w

\* _extract_bearer_token
extract_bearer_token(authorization) ==
  IF authorization = <<>>
    THEN Null
    ELSE IF Len(authorization) = 2 /\ Lower(authorization[1]) = "bearer"
           THEN <<authorization[2]>>
           ELSE Null

\* the outcome of get_current_user_id: a user id or an HTTPException
Resolved(uid) == [uid |-> <<uid>>, exc |-> NoResp]

Rejected(status, detail) == [uid |-> Null, exc |-> HTTPException(status, detail)]

CurrentUserId_body_first(token, answer, fallback_user_id) ==
  IF fallback_user_id # Null
    THEN Resolved(fallback_user_id[1])
    ELSE IF token = Null
           THEN Rejected(401, "Authorization token required")
           ELSE IF ~answer.reached
                  THEN Rejected(503, "Auth service unavailable")
                  ELSE IF answer.status_code # 200
                         THEN Rejected(401, "Invalid or expired token")
                         ELSE IF answer.id = Null
                                THEN Rejected(401, "Invalid token payload")
                                ELSE Resolved(answer.id[1])

CurrentUserId_falls_back(token, answer, fallback_user_id) ==
  IF token # Null /\ ~answer.reached
    THEN Rejected(503, "Auth service unavailable")
    ELSE IF token # Null /\ answer.status_code = 200
           THEN IF answer.id = Null
                  THEN Rejected(401, "Invalid token payload")
                  ELSE Resolved(answer.id[1])
           ELSE IF fallback_user_id # Null
                  THEN Resolved(fallback_user_id[1])
                  ELSE Rejected(401, IF token = Null THEN "Authorization token required" ELSE "Invalid or expired token")

\* get_current_user_id, given the token found and the provider's answer to it
CurrentUserId(token, answer, fallback_user_id) ==
  IF token # Null
    THEN IF ~answer.reached
           THEN Rejected(503, "Auth service unavailable")
           ELSE IF answer.status_code # 200
                  THEN Rejected(401, "Invalid or expired token")
                  ELSE IF answer.id = Null
                         THEN Rejected(401, "Invalid token payload")
                         ELSE Resolved(answer.id[1])
    ELSE IF fallback_user_id # Null
           THEN Resolved(fallback_user_id[1])
           ELSE Rejected(401, "Authorization token required")

\* the first store call of each handler
FirstCall(kind) ==
  CASE kind = "create_room" -> "users_select"
    [] kind = "join_room" -> "get_room_by_code"
    [] OTHER -> "room_select"

\* a request as it arrives, before its user id is resolved
Unresolved(rq, authorization, fallback_user_id) ==
  [rq EXCEPT !.pc = "get_current_user_id", !.user_id = 0, !.authorization = authorization, !.fallback_user_id = fallback_user_id]

\* the first line of every handler: with a token the provider is asked, and
\* its answer is kept in provider; without one it is not
get_current_user_id(p) ==
  /\ req[p].pc = "get_current_user_id"
  /\ LET token == extract_bearer_token(req[p].authorization)
         go(answer, r) ==
           LET out == CurrentUserId(token, answer, req[p].fallback_user_id)
           IN IF out.uid # Null
                THEN [r EXCEPT !.pc = FirstCall(req[p].kind), !.user_id = out.uid[1]]
                ELSE [r EXCEPT !.pc = "done", !.resp = out.exc]
     IN \/ /\ token = Null
           /\ Set(p, go([reached |-> FALSE, status_code |-> 0, id |-> Null], req[p]))
        \/ /\ token # Null
           /\ \E answer \in ProviderAnswers : Set(p, go(answer, [req[p] EXCEPT !.provider = <<answer>>]))
  /\ UNCHANGED <<store, aux>>

\* a request arrives with its credentials while no other is being served
BeginAuth(rq, authorization, fallback_user_id) == BeginOne(Unresolved(rq, authorization, fallback_user_id), MaxRequestsA)

\* ---- create_room
create_users_select(p) ==
  /\ Running(p, "create_room", "users_select")
  /\ Set(p, IF {u \in users : u.id = req[p].user_id} = {} THEN Goto(p, "users_insert") ELSE Goto(p, "code_check"))
  /\ UNCHANGED <<store, aux>>

create_users_insert(p) ==
  /\ Running(p, "create_room", "users_insert")
  /\ users' = users \cup {[id |-> req[p].user_id, username |-> NoName]}
  /\ Set(p, Goto(p, "code_check"))
  /\ UNCHANGED <<rooms, room_users, estimates, aux>>

create_code_check_keeps_last(p, candidate) ==
  /\ Running(p, "create_room", "code_check")
  /\ Set(p, IF RoomsByCode(candidate) = {} \/ req[p].tries + 1 = MaxAttempts
              THEN [req[p] EXCEPT !.pc = "rooms_insert", !.join_code = candidate, !.tries = @ + 1]
              ELSE [req[p] EXCEPT !.tries = @ + 1, !.rejected = @ \cup {candidate}])
  /\ UNCHANGED <<store, aux>>

\* one turn of the loop: generate_join_code() and the rooms lookup; tries
\* counts the candidates generated so far, rejected holds those found taken
create_code_check(p, candidate) ==
  /\ Running(p, "create_room", "code_check")
  /\ Set(p, IF RoomsByCode(candidate) = {}
              THEN [req[p] EXCEPT !.pc = "rooms_insert", !.join_code = candidate, !.tries = @ + 1]
              ELSE IF req[p].tries + 1 < MaxAttempts
                     THEN [req[p] EXCEPT !.tries = @ + 1, !.rejected = @ \cup {candidate}]
                     ELSE [Raise(p, 500, "Could not generate unique join code") EXCEPT !.tries = @ + 1, !.rejected = @ \cup {candidate}])
  /\ UNCHANGED <<store, aux>>

create_rooms_insert(p) ==
  /\ Running(p, "create_room", "rooms_insert")
  /\ rooms' = rooms \cup {[id |-> FreshRoomId, join_code |-> req[p].join_code, revealed |-> FALSE, average |-> Null, is_active |-> TRUE]}
  /\ Set(p, [req[p] EXCEPT !.pc = "member_select", !.room_id = FreshRoomId])
  /\ UNCHANGED <<users, room_users, estimates, aux>>

create_member_select(p) ==
  /\ Running(p, "create_room", "member_select")
  /\ Set(p, IF MemberRows(req[p].room_id, req[p].user_id) = 0
              THEN Goto(p, "member_insert")
              ELSE Return200(p, EmptyBag, Null))
  /\ UNCHANGED <<store, aux>>

create_member_insert_nothing(p) ==
  /\ Running(p, "create_room", "member_insert")
  /\ Set(p, Return200(p, EmptyBag, Null))
  /\ UNCHANGED <<store, aux>>

create_member_insert(p) ==
  /\ Running(p, "create_room", "member_insert")
  /\ room_users' = room_users (+) SetToBag({MemberRow(req[p].room_id, req[p].user_id)})
  /\ Set(p, Return200(p, EmptyBag, Null))
  /\ UNCHANGED <<users, rooms, estimates, aux>>

\* ---- join_room
\* get_room_by_code and the is_active test; the store returns the rows that
\* share a code in no fixed order, and data[0] is any of them
join_get_room_by_code(p) ==
  /\ Running(p, "join_room", "get_room_by_code")
  /\ \/ /\ RoomsByCode(req[p].join_code) = {}
        /\ Set(p, Raise(p, 404, "Room not found"))
     \/ \E room \in RoomsByCode(req[p].join_code) :
          Set(p, IF room.is_active
                   THEN [req[p] EXCEPT !.pc = "existing_select", !.room_id = room.id]
                   ELSE [Raise(p, 403, "Room is not active") EXCEPT !.room_id = room.id])
  /\ UNCHANGED <<store, aux>>

join_existing_select(p) ==
  /\ Running(p, "join_room", "existing_select")
  /\ Set(p, [req[p] EXCEPT !.pc = "all_members_select", !.existing = MemberRows(req[p].room_id, req[p].user_id)])
  /\ UNCHANGED <<store, aux>>

NotExisting_always(existing) == TRUE

\* not (existing.data or [])
NotExisting(existing) == existing = 0

RoomIsFull_off_by_one(all_members, existing) == all_members > Capacity /\ NotExisting(existing)

RoomIsFull(all_members, existing) == all_members >= Capacity /\ NotExisting(existing)

\* the second query and the capacity test
join_all_members_select(p) ==
  /\ Running(p, "join_room", "all_members_select")
  /\ LET all_members == BagCardinality(RoomMemberIds(req[p].room_id))
         r == [req[p] EXCEPT !.all_members = all_members]
     IN Set(p, IF RoomIsFull(all_members, req[p].existing)
                 THEN [r EXCEPT !.pc = "done", !.resp = HTTPException(403, "Room is full")]
                 ELSE IF NotExisting(req[p].existing)
                        THEN [r EXCEPT !.pc = "member_insert"]
                        ELSE [r EXCEPT !.pc = "list_members"])
  /\ UNCHANGED <<store, aux>>

join_member_insert(p) ==
  /\ Running(p, "join_room", "member_insert")
  /\ room_users' = room_users (+) SetToBag({MemberRow(req[p].room_id, req[p].user_id)})
  /\ Set(p, Goto(p, "list_members"))
  /\ UNCHANGED <<users, rooms, estimates, aux>>

\* list_members, first query: the user ids of the room's rows
list_members_room_users(p) ==
  /\ Running(p, "join_room", "list_members")
  /\ LET ids == RoomMemberIds(req[p].room_id)
     IN Set(p, IF ids = EmptyBag
                 THEN Return200(p, EmptyBag, Null)
                 ELSE [req[p] EXCEPT !.pc = "list_members_users", !.data = ids])
  /\ UNCHANGED <<store, aux>>

\* profile_map.get(uid, {}).get("username")
ProfileName(profiles, uid) ==
  IF \E u \in profiles : u.id = uid
    THEN (CHOOSE u \in profiles : u.id = uid).username
    ELSE NoName

\* one Member per id of ids
Members(ids, profiles) ==
  LET member(uid) == [user_id |-> uid, username |-> ProfileName(profiles, uid)]
  IN [m \in {member(uid) : uid \in DOMAIN ids} |-> ids[m.user_id]]

\* list_members, second query: the profiles of those ids
list_members_users(p) ==
  /\ Running(p, "join_room", "list_members_users")
  /\ LET profiles == {u \in users : u.id \in DOMAIN req[p].data}
     IN Set(p, [Return200(p, Members(req[p].data, profiles), Null) EXCEPT !.data = EmptyBag])
  /\ UNCHANGED <<store, aux>>

ensure_membership_skipped(p) ==
  /\ req[p].kind \in {"submit_estimate", "reveal", "reset"}
  /\ req[p].pc = "ensure_membership"
  /\ Set(p, Goto(p, IF req[p].kind = "submit_estimate" THEN "est_select"
                    ELSE IF req[p].kind = "reveal" THEN "est_fetch" ELSE "est_delete"))
  /\ UNCHANGED <<store, aux>>

ensure_membership_any_room(p) ==
  /\ req[p].kind \in {"submit_estimate", "reveal", "reset"}
  /\ req[p].pc = "ensure_membership"
  /\ Set(p, IF \A r \in rooms : MemberRows(r.id, req[p].user_id) = 0
              THEN Raise(p, 403, "User not in room")
              ELSE Goto(p, IF req[p].kind = "submit_estimate" THEN "est_select"
                           ELSE IF req[p].kind = "reveal" THEN "est_fetch" ELSE "est_delete"))
  /\ UNCHANGED <<store, aux>>

\* ---- ensure_membership, called by submit_estimate, reveal and reset
ensure_membership(p) ==
  /\ req[p].kind \in {"submit_estimate", "reveal", "reset"}
  /\ req[p].pc = "ensure_membership"
  /\ Set(p, IF MemberRows(req[p].room_id, req[p].user_id) = 0
              THEN Raise(p, 403, "User not in room")
              ELSE Goto(p, IF req[p].kind = "submit_estimate" THEN "est_select"
                           ELSE IF req[p].kind = "reveal" THEN "est_fetch" ELSE "est_delete"))
  /\ UNCHANGED <<store, aux>>

\* the rooms lookup by id that opens submit_estimate, reveal and reset
RoomCheck(p) ==
  IF RoomsById(req[p].room_id) = {} THEN Raise(p, 404, "Room not found") ELSE Goto(p, "ensure_membership")

\* ---- submit_estimate
submit_room_select(p) ==
  /\ Running(p, "submit_estimate", "room_select")
  /\ Set(p, RoomCheck(p))
  /\ UNCHANGED <<store, aux>>

\* existing.data[0]["id"] is the id of any of the rows found
submit_est_select(p) ==
  /\ Running(p, "submit_estimate", "est_select")
  /\ \/ /\ EstimatesOf(req[p].room_id, req[p].user_id) = {}
        /\ Set(p, Goto(p, "est_insert"))
     \/ \E e \in EstimatesOf(req[p].room_id, req[p].user_id) :
          Set(p, [req[p] EXCEPT !.pc = "est_update", !.est_id = <<e.id>>])
  /\ UNCHANGED <<store, aux>>

UpdateEstimate_append(r, u, id, value) ==
  estimates \cup {[id |-> id + 1, room_id |-> r, user_id |-> u, value |-> value]}

\* update({"value": ...}).eq("id", ...): the row with that id, if it is still there
UpdateEstimate(r, u, id, value) ==
  {IF e.room_id = r /\ e.user_id = u /\ e.id = id THEN [e EXCEPT !.value = value] ELSE e : e \in estimates}

submit_est_update(p) ==
  /\ Running(p, "submit_estimate", "est_update")
  /\ estimates' = UpdateEstimate(req[p].room_id, req[p].user_id, req[p].est_id[1], req[p].estimate)
  /\ Set(p, [Return200(p, EmptyBag, Null) EXCEPT !.est_id = Null])
  /\ UNCHANGED <<users, rooms, room_users, aux>>

InsertEstimate(r, u, value) ==
  estimates \cup {[id |-> FreshEstimateId(r, u), room_id |-> r, user_id |-> u, value |-> value]}

submit_est_insert_reopens(p) ==
  /\ Running(p, "submit_estimate", "est_insert")
  /\ estimates' = InsertEstimate(req[p].room_id, req[p].user_id, req[p].estimate)
  /\ rooms' = {IF r.id = req[p].room_id THEN [r EXCEPT !.revealed = FALSE] ELSE r : r \in rooms}
  /\ Set(p, Return200(p, EmptyBag, Null))
  /\ UNCHANGED <<users, room_users, aux>>

submit_est_insert(p) ==
  /\ Running(p, "submit_estimate", "est_insert")
  /\ estimates' = InsertEstimate(req[p].room_id, req[p].user_id, req[p].estimate)
  /\ Set(p, Return200(p, EmptyBag, Null))
  /\ UNCHANGED <<users, rooms, room_users, aux>>

\* ---- reveal
reveal_room_select(p) ==
  /\ Running(p, "reveal", "room_select")
  /\ Set(p, RoomCheck(p))
  /\ UNCHANGED <<store, aux>>

\* one {value, user_id} per estimates row of the room
EstimateData(r) ==
  LET rows == EstimatesOfRoom(r)
      cell(e) == [user_id |-> e.user_id, value |-> e.value]
  IN [c \in {cell(e) : e \in rows} |-> Cardinality({e \in rows : cell(e) = c})]

NoEstimates_never(data) == FALSE

\* not est.data
NoEstimates(data) == data = EmptyBag

reveal_est_fetch(p) ==
  /\ Running(p, "reveal", "est_fetch")
  /\ LET data == EstimateData(req[p].room_id)
     IN Set(p, IF NoEstimates(data)
                 THEN Raise(p, 404, "No estimates found")
                 ELSE [req[p] EXCEPT !.pc = "names_select", !.data = data])
  /\ UNCHANGED <<store, aux>>

RECURSIVE Gcd(_, _)
Gcd(a, b) == IF b = 0 THEN a ELSE Gcd(b, a % b)

\* float(total / count), kept exact
Divide(total, count) == LET g == Gcd(total, count) IN <<total \div g, count \div g>>

\* the loop over est.data: estimates_list, total and count
RECURSIVE RevealLoop(_, _, _)
RevealLoop(data, name_map, acc) ==
  IF data = EmptyBag
    THEN acc
    ELSE LET e == CHOOSE x \in BagToSet(data) : TRUE
             val == e.value
             uname == ProfileName(name_map, e.user_id)
             item == SetToBag({[user |-> uname, estimate |-> val]})
         IN RevealLoop(data (-) SetToBag({e}), name_map,
                       [estimates_list |-> acc.estimates_list (+) item,
                        total |-> IF val # Null THEN acc.total + val[1] ELSE acc.total,
                        count |-> IF val # Null THEN acc.count + 1 ELSE acc.count])

Average_floor(total, count) == IF count > 0 THEN <<total \div count, 1>> ELSE <<0, 1>>

Average(total, count) == IF count > 0 THEN Divide(total, count) ELSE <<0, 1>>

\* the users lookup, the loop and the average
reveal_names_select(p) ==
  /\ Running(p, "reveal", "names_select")
  /\ LET name_map == {u \in users : u.id \in {c.user_id : c \in BagToSet(req[p].data)}}
         out == RevealLoop(req[p].data, name_map, [estimates_list |-> EmptyBag, total |-> 0, count |-> 0])
     IN Set(p, [req[p] EXCEPT !.pc = "rooms_update", !.data = EmptyBag,
                              !.resp = Ok(out.estimates_list, Average(out.total, out.count))])
  /\ UNCHANGED <<store, aux>>

UpdateRoom_flag_only(id, revealed, average) ==
  {IF r.id = id THEN [r EXCEPT !.revealed = revealed] ELSE r : r \in rooms}

\* update(values).eq("id", id) on rooms
UpdateRoom(id, revealed, average) ==
  {IF r.id = id THEN [r EXCEPT !.revealed = revealed, !.average = average] ELSE r : r \in rooms}

reveal_rooms_update(p) ==
  /\ Running(p, "reveal", "rooms_update")
  /\ rooms' = UpdateRoom(req[p].room_id, TRUE, req[p].resp.average)
  /\ Set(p, Goto(p, "done"))
  /\ UNCHANGED <<users, room_users, estimates, aux>>

\* ---- reset
reset_room_select(p) ==
  /\ Running(p, "reset", "room_select")
  /\ Set(p, RoomCheck(p))
  /\ UNCHANGED <<store, aux>>

DeleteEstimates_none(r) == estimates

DeleteEstimates_every_room(r) == {}

\* delete().eq("room_id", id) on estimates
DeleteEstimates(r) == {e \in estimates : e.room_id # r}

reset_est_delete(p) ==
  /\ Running(p, "reset", "est_delete")
  /\ estimates' = DeleteEstimates(req[p].room_id)
  /\ Set(p, Goto(p, "rooms_update"))
  /\ UNCHANGED <<users, rooms, room_users, aux>>

reset_rooms_update(p) ==
  /\ Running(p, "reset", "rooms_update")
  /\ rooms' = UpdateRoom(req[p].room_id, FALSE, Null)
  /\ Set(p, Return200(p, EmptyBag, Null))
  /\ UNCHANGED <<users, room_users, estimates, aux>>

\* ---- a store call that raises
\* the detail of the HTTPException that the except clause around the call
\* raises, without the text of the exception; the lookup of line 204 has no
\* except clause, and the framework answers 500 for it
FailureDetail(kind, pc) ==
  CASE kind = "create_room" /\ pc = "users_select" -> "Failed to query user"
    [] kind = "create_room" /\ pc = "code_check" -> "Internal Server Error"
    [] kind = "create_room" /\ pc = "rooms_insert" -> "Failed to create room"
    [] kind = "create_room" /\ pc \in {"member_select", "member_insert"} -> "Failed to add user to room"
    [] kind = "join_room" /\ pc = "get_room_by_code" -> "Failed to query room"
    [] kind = "join_room" /\ pc \in {"existing_select", "all_members_select"} -> "Failed to query room users"
    [] kind = "join_room" /\ pc = "member_insert" -> "Failed to join room"
    [] kind = "join_room" /\ pc = "list_members" -> "Failed to fetch room users"
    [] kind = "join_room" /\ pc = "list_members_users" -> "Failed to fetch user profiles"
    [] pc = "room_select" -> "Failed to query room"
    [] pc = "ensure_membership" -> "Failed to verify membership"
    [] kind = "submit_estimate" -> "Failed to submit estimate"
    [] kind = "reveal" /\ pc = "est_fetch" -> "Failed to fetch estimates"
    [] kind = "reveal" /\ pc = "names_select" -> "Failed to fetch users"
    [] kind = "reveal" /\ pc = "rooms_update" -> "Failed to update room reveal"
    [] OTHER -> "Failed to reset room"

\* the request is about to make a store call
AtStoreCall(p) == req[p].pc \notin {"idle", "done", "get_current_user_id"}

store_call_fails_rolls_back(p) ==
  /\ AtStoreCall(p)
  /\ Set(p, IF Running(p, "create_room", "users_insert")
              THEN Goto(p, "code_check")
              ELSE Raise(p, 500, FailureDetail(req[p].kind, req[p].pc)))
  /\ rooms' = IF req[p].kind = "create_room" /\ req[p].pc \in {"member_select", "member_insert"}
                THEN {r \in rooms : r.id # req[p].room_id}
                ELSE rooms
  /\ UNCHANGED <<users, room_users, estimates, aux>>

\* the store call the request is at raises and changes nothing in the store:
\* the handler raises 500, except for the users insert of create_room, whose
\* exception is passed over
store_call_fails(p) ==
  /\ AtStoreCall(p)
  /\ Set(p, IF Running(p, "create_room", "users_insert")
              THEN Goto(p, "code_check")
              ELSE Raise(p, 500, FailureDetail(req[p].kind, req[p].pc)))
  /\ UNCHANGED <<store, aux>>

\* ---- what the properties speak of
Done(p, kind) == req[p].kind = kind /\ req[p].pc = "done"

Succeeded(p) == req[p].resp.status = 200

Failed(p, status, detail) == req[p].resp.status = status /\ req[p].resp.detail = detail

\* the store when the request arrived
PreMemberRows(r, u) == CopiesIn(MemberRow(r, u), pre.room_users)

PreRoomRows(r) == BagCardinality([m \in {x \in BagToSet(pre.room_users) : x.room_id = r} |-> pre.room_users[m]])

PreEstimatesOf(r, u) == {e \in pre.estimates : e.room_id = r /\ e.user_id = u}

PreEstimatesOfRoom(r) == {e \in pre.estimates : e.room_id = r}

PreRoomsByCode(c) == {r \in pre.rooms : r.join_code = c}

PreRoomsById(id) == {r \in pre.rooms : r.id = id}

\* the entries of a member list that carry this user id
EntriesOf(list, u) == BagCardinality([m \in {x \in BagToSet(list) : x.user_id = u} |-> list[m]])

\* C1: after any create_room requests, interleaved or not, no two rooms hold
\* the same join code.
C1_JoinCodesUnique == \A r1 \in rooms, r2 \in rooms : r1.join_code = r2.join_code => r1.id = r2.id

\* C2: a join_room call to an active room below capacity, the first by that
\* user or a repeat, succeeds, leaves exactly one room_users row for (room,
\* user) and returns a member list that holds the user exactly once.
C2_JoinIdempotent ==
  \A p \in Procs : Done(p, "join_room") =>
    \A room \in PreRoomsByCode(req[p].join_code) :
      (room.is_active /\ PreRoomRows(room.id) < Capacity) =>
        /\ Succeeded(p)
        /\ MemberRows(room.id, req[p].user_id) = 1
        /\ EntriesOf(req[p].resp.list, req[p].user_id) = 1
        /\ BagCardinality(req[p].resp.list) = PreRoomRows(room.id) + (IF PreMemberRows(room.id, req[p].user_id) = 0 THEN 1 ELSE 0)

\* a repeated join_room call by a member has returned
C2_Witness ==
  \E p \in Procs :
    /\ Done(p, "join_room") /\ Succeeded(p)
    /\ PreMemberRows(req[p].room_id, req[p].user_id) = 1
    /\ PreRoomRows(req[p].room_id) < Capacity

\* C3: in an active room that has 15 or more room_users rows, join_room by a
\* user without a row fails with 403 "Room is full" and inserts nothing;
\* join_room by a user with a row succeeds and inserts nothing.
C3_CapacityCap ==
  \A p \in Procs : Done(p, "join_room") =>
    \A room \in PreRoomsByCode(req[p].join_code) :
      (room.is_active /\ PreRoomRows(room.id) >= Capacity) =>
        /\ room_users = pre.room_users
        /\ IF PreMemberRows(room.id, req[p].user_id) = 0
             THEN Failed(p, 403, "Room is full")
             ELSE Succeeded(p) /\ EntriesOf(req[p].resp.list, req[p].user_id) = 1

\* a user without a row has been turned away from a full room
C3_Witness ==
  \E p \in Procs :
    /\ Done(p, "join_room") /\ Failed(p, 403, "Room is full")
    /\ PreRoomRows(req[p].room_id) = Capacity
    /\ \E u \in UserIds : PreMemberRows(req[p].room_id, u) = 1

\* C4: after a successful submit_estimate the estimates table holds exactly
\* one row for (room, user), with the value of that call, and the rows of
\* every other (room, user) are as before.
C4_SubmitUpsert ==
  \A p \in Procs : (Done(p, "submit_estimate") /\ Succeeded(p)) =>
    /\ \E e \in estimates : EstimatesOf(req[p].room_id, req[p].user_id) = {e} /\ e.value = req[p].estimate
    /\ estimates \ EstimatesOf(req[p].room_id, req[p].user_id) = pre.estimates \ PreEstimatesOf(req[p].room_id, req[p].user_id)

\* a member has replaced an earlier estimate by another value
C4_Witness ==
  \E p \in Procs :
    /\ Done(p, "submit_estimate") /\ Succeeded(p)
    /\ \E e \in PreEstimatesOf(req[p].room_id, req[p].user_id) : e.value # Null /\ e.value # req[p].estimate

\* the non-null values of a set of estimates rows, added up
RECURSIVE SumOfValues(_)
SumOfValues(rows) ==
  IF rows = {} THEN 0
  ELSE LET e == CHOOSE x \in rows : TRUE
       IN (IF e.value = Null THEN 0 ELSE e.value[1]) + SumOfValues(rows \ {e})

NonNull(rows) == {e \in rows : e.value # Null}

\* the fraction avg is the mean of the non-null values of rows, or 0 if there are none
IsMeanOf(avg, rows) ==
  /\ Len(avg) = 2 /\ avg[2] > 0
  /\ IF NonNull(rows) = {}
       THEN avg[1] = 0
       ELSE avg[1] * Cardinality(NonNull(rows)) = SumOfValues(rows) * avg[2]

\* C5: a successful reveal returns one list entry per estimates row of the
\* room and, as average, the sum of the non-null values divided by their
\* number, or 0 if every value is null.
C5_RevealAverage ==
  \A p \in Procs : (Done(p, "reveal") /\ Succeeded(p)) =>
    /\ BagCardinality(req[p].resp.list) = Cardinality(PreEstimatesOfRoom(req[p].room_id))
    /\ IsMeanOf(req[p].resp.average, PreEstimatesOfRoom(req[p].room_id))

\* a reveal over the estimates 5, 8 and 13
C5_Witness ==
  \E p \in Procs :
    /\ Done(p, "reveal") /\ Succeeded(p)
    /\ BagCardinality(req[p].resp.list) = 3
    /\ {e.value : e \in PreEstimatesOfRoom(req[p].room_id)} = {<<5>>, <<8>>, <<13>>}
    /\ req[p].resp.average = <<26, 3>>

\* C6: reveal by a member of a room without estimates rows fails with 404
\* "No estimates found" and leaves the rooms table as it was.
C6_RevealNothing ==
  \A p \in Procs : Done(p, "reveal") =>
    ((/\ PreRoomsById(req[p].room_id) # {}
      /\ PreMemberRows(req[p].room_id, req[p].user_id) > 0
      /\ PreEstimatesOfRoom(req[p].room_id) = {})
       => Failed(p, 404, "No estimates found") /\ rooms = pre.rooms)

\* a member's reveal found no estimates in a room a new member joined
C6_Witness ==
  \E p \in Procs :
    /\ Done(p, "reveal") /\ Failed(p, 404, "No estimates found")
    /\ PreMemberRows(req[p].room_id, req[p].user_id) > 0
    /\ PreEstimatesOfRoom(req[p].room_id) = {}

\* the step is request p's insert of an estimate for room r
SubmitInserts(p, r) == Running(p, "submit_estimate", "est_insert") /\ req[p].room_id = r /\ req'[p].pc = "done" /\ req'[p].resp.status = 200

\* C7: a successful reset leaves the room without estimates rows, a room
\* without estimates rows gets one only by a submit_estimate that succeeds,
\* and a member's reveal of a room without estimates rows fails with 404
\* "No estimates found".
C7_ResetThenReveal ==
  /\ [](\A p \in Procs : (Done(p, "reset") /\ Succeeded(p)) => EstimatesOfRoom(req[p].room_id) = {})
  /\ [][\A r \in RoomIds : (EstimatesOfRoom(r) = {} /\ EstimatesOfRoom(r)' # {}) => \E p \in Procs : SubmitInserts(p, r)]_vars
  /\ [](\A p \in Procs : (Done(p, "reveal") /\ EstimatesOfRoom(req[p].room_id) = {} /\ MemberRows(req[p].room_id, req[p].user_id) > 0)
          => Failed(p, 404, "No estimates found"))

\* a member's reveal failed for want of estimates in the room that held some
\* before the first request, so that a reset emptied it
C7_Witness ==
  \E p \in Procs :
    /\ Done(p, "reveal") /\ Failed(p, 404, "No estimates found")
    /\ req[p].room_id = SeedRoom
    /\ \E r \in rooms : r.id = SeedRoom /\ r.is_active /\ ~r.revealed /\ r.average = Null

\* the rooms rows other than room r's
OtherRooms(rs, r) == {x \in rs : x.id # r}

\* C8: submit_estimate, reveal or reset for a room that exists, by a user
\* without a room_users row for it, fails with 403 "User not in room" and
\* leaves estimates, rooms and room_users as they were.
C8_NonMemberForbidden ==
  \A p \in Procs : (Done(p, "submit_estimate") \/ Done(p, "reveal") \/ Done(p, "reset")) =>
    ((PreRoomsById(req[p].room_id) # {} /\ PreMemberRows(req[p].room_id, req[p].user_id) = 0)
       => /\ Failed(p, 403, "User not in room")
          /\ estimates = pre.estimates
          /\ rooms = pre.rooms
          /\ room_users = pre.room_users)

\* a user who never joined asked to reset a revealed room that holds estimates
C8_Witness ==
  \E p \in Procs :
    /\ Done(p, "reset") /\ Failed(p, 403, "User not in room")
    /\ EstimatesOfRoom(req[p].room_id) # {}
    /\ \E r \in rooms : r.id = req[p].room_id /\ r.revealed

\* C9: a successful reset deletes every estimates row of its room, sets the
\* room's revealed to false and its average to null, and leaves alone every
\* room_users row, the estimates rows of the other rooms, the rooms rows of
\* the other rooms and the room's other columns.
C9_ResetFrame ==
  \A p \in Procs : (Done(p, "reset") /\ Succeeded(p)) =>
    /\ EstimatesOfRoom(req[p].room_id) = {}
    /\ \A r \in RoomsById(req[p].room_id) : ~r.revealed /\ r.average = Null
    /\ room_users = pre.room_users
    /\ estimates = pre.estimates \ PreEstimatesOfRoom(req[p].room_id)
    /\ OtherRooms(rooms, req[p].room_id) = OtherRooms(pre.rooms, req[p].room_id)
    /\ \A r \in PreRoomsById(req[p].room_id) : RoomsById(req[p].room_id) = {[r EXCEPT !.revealed = FALSE, !.average = Null]}

\* a revealed room with estimates was reset while another room held
\* estimates of its own
C9_Witness ==
  \E p \in Procs :
    /\ Done(p, "reset") /\ Succeeded(p)
    /\ PreEstimatesOfRoom(req[p].room_id) # {}
    /\ \E r \in PreRoomsById(req[p].room_id) : r.revealed /\ r.average # Null
    /\ \E e \in estimates : e.room_id # req[p].room_id

\* C10: a successful reveal leaves its room with revealed = true and with the
\* average it returns, and leaves alone the estimates and room_users tables,
\* the other rooms and the room's other columns.
C10_RevealPersists ==
  \A p \in Procs : (Done(p, "reveal") /\ Succeeded(p)) =>
    /\ RoomsById(req[p].room_id) # {}
    /\ \A r \in RoomsById(req[p].room_id) : r.revealed /\ r.average = req[p].resp.average /\ r.average # Null
    /\ estimates = pre.estimates
    /\ room_users = pre.room_users
    /\ OtherRooms(rooms, req[p].room_id) = OtherRooms(pre.rooms, req[p].room_id)
    /\ \A r \in PreRoomsById(req[p].room_id) : RoomsById(req[p].room_id) = {[r EXCEPT !.revealed = TRUE, !.average = req[p].resp.average]}

\* a second reveal of a room replaced the average of the first
C10_Witness ==
  \E p \in Procs :
    /\ Done(p, "reveal") /\ Succeeded(p)
    /\ \E r \in PreRoomsById(req[p].room_id) : r.revealed /\ r.average # Null /\ r.average # req[p].resp.average

\* C11: after a successful create_room by user u the rooms table holds the
\* new room as active, not revealed and with a null average, u has exactly
\* one room_users row for it (so that ensure_membership lets u submit, reveal
\* and reset), the room has no other room_users row and no estimates row, and
\* every other row is as before.
C11_CreatePostState ==
  \A p \in Procs : (Done(p, "create_room") /\ Succeeded(p)) =>
    /\ PreRoomsById(req[p].room_id) = {}
    /\ RoomsById(req[p].room_id) = {[id |-> req[p].room_id, join_code |-> req[p].join_code, revealed |-> FALSE, average |-> Null, is_active |-> TRUE]}
    /\ MemberRows(req[p].room_id, req[p].user_id) = 1
    /\ RoomMemberIds(req[p].room_id) = SetToBag({req[p].user_id})
    /\ EstimatesOfRoom(req[p].room_id) = {}
    /\ OtherRooms(rooms, req[p].room_id) = pre.rooms
    /\ room_users = pre.room_users (+) SetToBag({MemberRow(req[p].room_id, req[p].user_id)})
    /\ estimates = pre.estimates

\* a user who already sits in another room has created a second one
C11_Witness ==
  \E p \in Procs :
    /\ Done(p, "create_room") /\ Succeeded(p)
    /\ \E r \in pre.rooms : PreMemberRows(r.id, req[p].user_id) = 1
    /\ MemberRows(req[p].room_id, req[p].user_id) = 1

\* the join codes of the rooms that were there when the request arrived
PreCodes == {r.join_code : r \in pre.rooms}

\* C12: create_room generates at most 6 candidate join codes, passes over
\* candidates that a room already holds and takes the first that none holds;
\* when all 6 candidates are held it fails with 500 "Could not generate
\* unique join code" and leaves rooms, room_users and estimates as they were.
C12_BoundedRetry ==
  \A p \in Procs : req[p].kind = "create_room" =>
    /\ req[p].tries <= 6
    /\ req[p].rejected \subseteq PreCodes
    /\ req[p].pc = "code_check" => req[p].tries < 6
    /\ req[p].pc \in {"rooms_insert", "member_select", "member_insert"} => req[p].join_code \notin PreCodes
    /\ (Done(p, "create_room") /\ Succeeded(p)) => req[p].join_code \notin PreCodes
    /\ (Done(p, "create_room") /\ ~Succeeded(p)) =>
         /\ Failed(p, 500, "Could not generate unique join code")
         /\ req[p].tries = 6
         /\ req[p].rejected # {}
         /\ rooms = pre.rooms
         /\ room_users = pre.room_users
         /\ estimates = pre.estimates

\* the sixth candidate was taken as well, after both codes had been tried
C12_Witness ==
  \E p \in Procs :
    /\ Done(p, "create_room") /\ Failed(p, 500, "Could not generate unique join code")
    /\ req[p].tries = MaxAttempts
    /\ req[p].rejected = Codes

\* the request is past get_current_user_id
PastIdentity(p) == req[p].kind # "idle" /\ req[p].pc # "get_current_user_id"

\* the request carries a bearer credential
BearerPresent(p) == Len(req[p].authorization) = 2 /\ req[p].authorization[1] \in {"Bearer", "BEARER"}

\* the request was refused by get_current_user_id
Unauthorized(p, detail) == req[p].pc = "done" /\ Failed(p, 401, detail)

ServiceUnavailable(p) == req[p].pc = "done" /\ Failed(p, 503, "Auth service unavailable")

\* the request runs, or ran, its handler as user u
ProceedsAs(p, u) == req[p].user_id = u /\ req[p].resp.status \notin {401, 503}

\* no store call of the handler has run for the request
NoStoreCall(p) ==
  /\ req[p].user_id = 0 /\ req[p].tries = 0 /\ req[p].rejected = {} /\ req[p].existing = 0
  /\ req[p].all_members = 0 /\ req[p].est_id = Null /\ req[p].data = EmptyBag
  /\ users = pre.users /\ rooms = pre.rooms /\ room_users = pre.room_users /\ estimates = pre.estimates

\* C13: with a bearer credential the provider is asked and the user id is
\* the id it returns; the request fails with 401 when the provider answers
\* with another status than 200 or without an id, and with 503 when the
\* provider cannot be reached.  Without a bearer credential the provider is
\* not asked and the user id is the body's user_id; without that either the
\* request fails with 401.  A request that fails so has made no store call.
C13_IdentityResolution ==
  \A p \in Procs : PastIdentity(p) =>
    /\ BearerPresent(p) =>
         /\ req[p].provider # Null
         /\ \A a \in {x \in ProviderAnswers : <<x>> = req[p].provider} :
              /\ (a.reached /\ a.status_code = 200 /\ a.id # Null) => ProceedsAs(p, a.id[1])
              /\ (a.reached /\ a.status_code # 200) => Unauthorized(p, "Invalid or expired token")
              /\ (a.reached /\ a.status_code = 200 /\ a.id = Null) => Unauthorized(p, "Invalid token payload")
              /\ ~a.reached => ServiceUnavailable(p)
    /\ ~BearerPresent(p) =>
         /\ req[p].provider = Null
         /\ req[p].fallback_user_id # Null => ProceedsAs(p, req[p].fallback_user_id[1])
         /\ req[p].fallback_user_id = Null => Unauthorized(p, "Authorization token required")
    /\ req[p].resp.status \in {401, 503} => req[p].pc = "done" /\ NoStoreCall(p)

\* a request with a token and another user's id in its body was served to
\* the end as the user the provider named
C13_Witness ==
  \E p \in Procs :
    /\ req[p].pc = "done" /\ Succeeded(p)
    /\ BearerPresent(p)
    /\ req[p].fallback_user_id # Null
    /\ req[p].provider # Null /\ req[p].provider[1].id # Null
    /\ req[p].provider[1].id # req[p].fallback_user_id
    /\ req[p].user_id = req[p].provider[1].id[1]

\* the request has no header, a malformed one, or a token the provider rejected
NoValidToken(p) ==
  \/ ~BearerPresent(p)
  \/ req[p].provider # Null /\ req[p].provider[1].reached /\ req[p].provider[1].status_code # 200

\* C14 as claimed: a request without a valid token (no header, a malformed
\* one, or a token the provider rejects) proceeds as the body's user_id when
\* there is one, and fails only when there is none.
C14_FallbackWithoutValidToken ==
  \A p \in Procs : (PastIdentity(p) /\ NoValidToken(p)) =>
    /\ req[p].fallback_user_id # Null => ProceedsAs(p, req[p].fallback_user_id[1])
    /\ req[p].resp.status \in {401, 503} => req[p].fallback_user_id = Null

\* C14: a request without a bearer token (no header or a malformed one)
\* proceeds as the body's user_id when there is one and fails with 401 when
\* there is none; a request whose bearer token the provider rejects fails
\* with 401 whether or not the body has a user_id.
C14_FallbackWithoutToken ==
  \A p \in Procs : PastIdentity(p) =>
    /\ ~BearerPresent(p) =>
         /\ req[p].fallback_user_id # Null => ProceedsAs(p, req[p].fallback_user_id[1])
         /\ req[p].fallback_user_id = Null => Unauthorized(p, "Authorization token required")
    /\ (BearerPresent(p) /\ NoValidToken(p)) => Unauthorized(p, "Invalid or expired token") /\ NoStoreCall(p)

\* a token was rejected and the request refused although its body names a user
C14_Witness ==
  \E p \in Procs :
    /\ BearerPresent(p) /\ NoValidToken(p)
    /\ req[p].fallback_user_id # Null
    /\ Unauthorized(p, "Invalid or expired token")

\* room r is in rs with its revealed flag set
Revealed(rs, r) == \E x \in rs : x.id = r /\ x.revealed

\* the step is the rooms update that ends a reveal, or a reset, of room r
RevealUpdates(p, r) == Running(p, "reveal", "rooms_update") /\ req[p].room_id = r /\ req'[p].pc = "done" /\ req'[p].resp.status = 200

ResetUpdates(p, r) == Running(p, "reset", "rooms_update") /\ req[p].room_id = r /\ req'[p].pc = "done" /\ req'[p].resp.status = 200

\* C15: when requests are served one after the other, a room's revealed flag
\* goes from false to true only in the step that ends a successful reveal of
\* that room, and then the room has at least one estimates row; it goes from
\* true to false only in the step that ends a successful reset of that room.
\* No step of create_room, join_room or submit_estimate changes it.
C15_RoundLifecycle ==
  [][\A r \in RoomIds :
       /\ (~Revealed(rooms, r) /\ Revealed(rooms', r)) => (EstimatesOfRoom(r) # {} /\ \E p \in Procs : RevealUpdates(p, r))
       /\ (Revealed(rooms, r) /\ ~Revealed(rooms', r)) => \E p \in Procs : ResetUpdates(p, r)
       /\ (\E p \in Procs : req[p].kind \in {"create_room", "join_room", "submit_estimate"} /\ req'[p] # req[p])
            => (Revealed(rooms', r) <=> Revealed(rooms, r))]_vars

\* a room that a reveal had set to revealed was set back by a reset
C15_Witness ==
  \E p \in Procs, r \in rooms :
    /\ Done(p, "reset") /\ Succeeded(p)
    /\ r.id = req[p].room_id /\ ~r.revealed
    /\ Revealed(pre.rooms, r.id)

\* C16: in every state, also while join_room or submit_estimate requests of
\* one user for one room interleave, there is at most one room_users row and
\* at most one estimates row for each (room, user).
C16_OneRowPerPair ==
  \A r \in rooms, u \in UserIds \cup FillerIds :
    /\ MemberRows(r.id, u) <= 1
    /\ Cardinality(EstimatesOf(r.id, u)) <= 1

\* C17: in every state, also while join_room requests of several users
\* interleave, no room has more than 15 room_users rows.
C17_CapacityUnderInterleaving ==
  \A r \in rooms : BagCardinality(RoomMemberIds(r.id)) <= Capacity

\* C19: in every state, between any two store calls and under any
\* interleaving, a room whose revealed flag is set has an estimates row.
C19_RevealedHasEstimates ==
  \A r \in rooms : r.revealed => EstimatesOfRoom(r.id) # {}

\* C20: in every state, under any interleaving, every estimates row is of a
\* room that the rooms table holds and of a user who has a room_users row
\* for that room.
C20_EstimatesOfMembers ==
  \A e \in estimates : RoomsById(e.room_id) # {} /\ MemberRows(e.room_id, e.user_id) >= 1

\* a user who joined while other requests were in flight has an estimate in
C20_Witness ==
  \E e \in estimates :
    /\ e.user_id \in UserIds
    /\ MemberRows(e.room_id, e.user_id) >= 1
    /\ Cardinality(InFlight) = NProcs

\* C18: a create_room request that fails after its rooms insert fails with
\* 500 "Failed to add user to room", and the room it inserted stays: active,
\* not revealed, the only room that its join code finds, and without any
\* room_users row.
C18_NoRollback ==
  \A p \in Procs : (Done(p, "create_room") /\ ~Succeeded(p) /\ req[p].room_id # NoSuchRoom) =>
    /\ Failed(p, 500, "Failed to add user to room")
    /\ PreRoomsById(req[p].room_id) = {}
    /\ RoomsById(req[p].room_id) = {[id |-> req[p].room_id, join_code |-> req[p].join_code, revealed |-> FALSE, average |-> Null, is_active |-> TRUE]}
    /\ RoomsByCode(req[p].join_code) = RoomsById(req[p].room_id)
    /\ RoomMemberIds(req[p].room_id) = EmptyBag
    /\ rooms = pre.rooms \cup RoomsById(req[p].room_id)
    /\ room_users = pre.room_users
    /\ estimates = pre.estimates

\* a create_room request failed after it had inserted its room
C18_Witness ==
  \E p \in Procs :
    /\ Done(p, "create_room") /\ Failed(p, 500, "Failed to add user to room")
    /\ \E r \in rooms : r.id = req[p].room_id /\ r.is_active /\ r.join_code = req[p].join_code
    /\ RoomMemberIds(req[p].room_id) = EmptyBag

Steps ==
  \/ \E p \in Procs : Return(p)
  \/ \E p \in Procs : create_users_select(p)
  \/ \E p \in Procs : create_users_insert(p)
  \/ \E p \in Procs, c \in Codes : create_code_check(p, c)
  \/ \E p \in Procs : create_rooms_insert(p)
  \/ \E p \in Procs : create_member_select(p)
  \/ \E p \in Procs : create_member_insert(p)
  \/ \E p \in Procs : join_get_room_by_code(p)
  \/ \E p \in Procs : join_existing_select(p)
  \/ \E p \in Procs : join_all_members_select(p)
  \/ \E p \in Procs : join_member_insert(p)
  \/ \E p \in Procs : list_members_room_users(p)
  \/ \E p \in Procs : list_members_users(p)
  \/ \E p \in Procs : ensure_membership(p)
  \/ \E p \in Procs : submit_room_select(p)
  \/ \E p \in Procs : submit_est_select(p)
  \/ \E p \in Procs : submit_est_update(p)
  \/ \E p \in Procs : submit_est_insert(p)
  \/ \E p \in Procs : reveal_room_select(p)
  \/ \E p \in Procs : reveal_est_fetch(p)
  \/ \E p \in Procs : reveal_names_select(p)
  \/ \E p \in Procs : reveal_rooms_update(p)
  \/ \E p \in Procs : reset_room_select(p)
  \/ \E p \in Procs : reset_est_delete(p)
  \/ \E p \in Procs : reset_rooms_update(p)

Next ==
  \/ \E rq \in Requests : BeginSeq(rq)
  \/ Steps

NextC ==
  \/ \E p \in Procs, rq \in Requests : BeginConc(p, rq)
  \/ Steps

NextA ==
  \/ \E rq \in RequestsBy({0}), authorization \in Headers, fallback_user_id \in FallbackIds : BeginAuth(rq, authorization, fallback_user_id)
  \/ \E p \in Procs : get_current_user_id(p)
  \/ Steps

NextF ==
  \/ \E rq \in RequestsBy(AuthIds) : BeginOne(rq, MaxRequestsF)
  \/ \E p \in Procs : store_call_fails(p)
  \/ Steps

Spec == Init /\ [][Next]_vars

SpecF == Init /\ [][NextF]_vars

SpecA == Init /\ [][NextA]_vars

SpecC == Init /\ [][NextC]_vars
====
